---- MODULE Spec2Model ----
(***************************************************************************)
(* Worker side of a map/reduce pipeline: doMap (src/src/DoMap.go) and      *)
(* doReduce (src/src/DoReduce.go) acting on a directory of shard files     *)
(* and merge files.  A file's content is the stream of tokens the JSON     *)
(* encoder produced for it; every os call of the two functions is a step.  *)
(***************************************************************************)
EXTENDS Integers, Sequences, FiniteSets, TLC

(* ------------------------------ bounds --------------------------------- *)
\* longest sequence of pairs a mapFunc call returns
MaxLen == 2
\* number of doMap / doReduce invocations in one behaviour
MaxRuns == 3
\* number of failing os calls and signalled transform failures in one behaviour
MaxFaults == 1

\* map task numbers, reduce task numbers and the values of nReduce in use
MapTasks == {0, 1}
ReduceTasks == {0, 1}
NReduceValues == {0, 1, 2}
NMapValues == {0, 1, 2}

\* the pairs a mapFunc emits (texts are valid UTF-8, which the JSON codec preserves)
KeyValue == {[Key |-> "a", Value |-> "1"], [Key |-> "a", Value |-> "2"],
             [Key |-> "b", Value |-> "3"]}
Keys == {kv.Key : kv \in KeyValue}
\* what a reduceFunc may return: any text, the text "error" included
ResultTexts == {"1", "error"}

RECURSIVE SeqsUpTo(_, _)
SeqsUpTo(S, n) ==
    IF n = 0 THEN {<<>>}
    ELSE LET shorter == SeqsUpTo(S, n - 1)
         IN  shorter \cup {Append(s, x) : s \in {t \in shorter : Len(t) = n - 1}, x \in S}

\* the outputs of mapFunc the model draws from
MapOutputs == SeqsUpTo(KeyValue, MaxLen)

(* ------------------------------ ihash ---------------------------------- *)
\* a uint32 is kept as two 16-bit halves [hi, lo]
Half == 65536

RECURSIVE BitXor(_, _)
BitXor(a, b) ==
    IF a = 0 THEN b
    ELSE IF b = 0 THEN a
    ELSE (((a % 2) + (b % 2)) % 2) + 2 * BitXor(a \div 2, b \div 2)

\* the bytes of a key
Bytes(s) ==
    CASE s = "a" -> <<97>>
      [] s = "b" -> <<98>>
      [] OTHER   -> <<>>

\* FNV-1a offset basis 0x811C9DC5 and prime 0x01000193, as 16-bit halves
FnvOffsetHi == 33052
FnvOffsetLo == 40389
FnvPrimeHi == 256
FnvPrimeLo == 403

\* one round of FNV-1a: h = (h XOR byte) * prime mod 2^32
FnvStep(h, byte) ==
    LET lo == BitXor(h.lo, byte)
        p  == lo * FnvPrimeLo
    IN  [lo |-> p % Half,
         hi |-> (h.hi * FnvPrimeLo + lo * FnvPrimeHi + (p \div Half)) % Half]

RECURSIVE FnvFold(_, _)
FnvFold(h, bs) ==
    IF bs = <<>> THEN h ELSE FnvFold(FnvStep(h, Head(bs)), Tail(bs))

ihash(s) == FnvFold([hi |-> FnvOffsetHi, lo |-> FnvOffsetLo], Bytes(s))

\* (faulty variant: the hash is taken as a signed 32-bit integer, whose
\* remainder has the sign of the dividend)
Mod32Signed(h, n) ==
    IF h.hi < Half \div 2
    THEN ((h.hi % n) * (Half % n) + (h.lo % n)) % n
    ELSE 0 - ((((Half - 1 - h.hi) % n) * (Half % n) + ((Half - h.lo) % n)) % n)
\* h % n for a uint32 h and 0 < n < 2^15
Mod32(h, n) == ((h.hi % n) * (Half % n) + (h.lo % n)) % n

\* (faulty variant: the index is off by one)
ShardIndexSwapped(key, n) == (Mod32(ihash(key), n) + 1) % n
\* encIndex of DoMap.go:102
ShardIndex(key, n) == Mod32(ihash(key), n)

(* ---------------------------- record codec ----------------------------- *)
\* json.Encoder.Encode(&kv): the record {"Key":k,"Value":v}\n as two tokens,
\* the part up to the key and the part from the value to the newline
Encode(kv) == << [t |-> "K", s |-> kv.Key], [t |-> "V", s |-> kv.Value] >>

RECURSIVE EncodeAll(_)
EncodeAll(kvs) ==
    IF kvs = <<>> THEN <<>> ELSE Encode(Head(kvs)) \o EncodeAll(Tail(kvs))

\* text that no encoder of this program writes: a stray closing bracket
\* (token E) and the complete object {"Key":k} that has no "Value" (token O)
StrayBracket == [t |-> "E", s |-> "]"]
KeyOnlyObject(k) == [t |-> "O", s |-> k]

\* the loop `for decoder.More() { decoder.Decode(&tempKV) ... }`: the pairs
\* decoded before the stream ends (ok) or before a record fails to parse.
\* More() is false at the end of the text and also at a ']' or '}'; Decode
\* into tempKV, declared once per file, leaves a field alone that the object
\* does not have
RECURSIVE DecodeStream(_, _)
DecodeStream(content, acc) ==
    IF content = <<>> THEN [kvs |-> acc, ok |-> TRUE]
    ELSE IF content[1].t = "E" THEN [kvs |-> acc, ok |-> TRUE]
    ELSE IF content[1].t = "O"
         THEN DecodeStream(Tail(content),
                           Append(acc, [Key |-> content[1].s,
                                        Value |-> IF acc = <<>> THEN ""
                                                  ELSE acc[Len(acc)].Value]))
    ELSE IF Len(content) >= 2 /\ content[1].t = "K" /\ content[2].t = "V"
         THEN DecodeStream(SubSeq(content, 3, Len(content)),
                           Append(acc, [Key |-> content[1].s, Value |-> content[2].s]))
         ELSE [kvs |-> acc, ok |-> FALSE]

Decode(content) == DecodeStream(content, <<>>)

(* ---------------------------- naming scheme ---------------------------- *)
reduceName(m, r) == <<"mrtmp", m, r>>
mergeName(r) == <<"mrtmp-res", r>>

(* ------------------------------- state --------------------------------- *)
VARIABLES
    disk,             \* the directory: file name -> content, for the files that exist
    nReduce,          \* the nReduce every doMap of this job is called with
    runs, faults,     \* invocations started, failures injected
    fn,               \* the function invoked last: "doMap" or "doReduce"
    pc,               \* where the running invocation stands
    returned,         \* what the last invocation returned to its caller
    stdout,           \* number of "Function error" lines printed
    status, err, i,   \* the locals status, err and the loop index of either function
    \* doMap
    mapTaskNumber, keyValues, encodingStrings, outFiles, mapCalls,
    \* doReduce
    reduceTaskNumber, nMap, rKeyValues, keyValuesMap, pending, newKeyValues,
    encodingString, outFile, reduceCalls,
    \* history of the running invocation
    created,          \* files this invocation created
    stepFailed,       \* some step of this invocation failed
    replaced,         \* files this invocation found and removed
    dropped,          \* files on which a WriteString or Close of this invocation failed
    valid,            \* files whose content is the whole output of an invocation that ended with status 0
    \* two invocations at a time
    other,            \* the locals of the invocation that is not running at the moment
    disk0             \* the directory before the first invocation

mapVars == <<mapTaskNumber, keyValues, encodingStrings, outFiles, mapCalls>>
redVars == <<reduceTaskNumber, nMap, rKeyValues, keyValuesMap, pending, newKeyValues,
             encodingString, outFile, reduceCalls>>
histVars == <<created, replaced, stepFailed, valid, dropped>>
parVars == <<other, disk0>>
vars == <<disk, nReduce, runs, faults, fn, pc, returned, stdout, status, err, i,
          mapVars, redVars, histVars, parVars>>

Exists(f) == f \in DOMAIN disk
RemoveFile(d, f) == [g \in DOMAIN d \ {f} |-> d[g]]
\* os.Create: the file exists afterwards and is empty (O_CREATE|O_TRUNC)
CreateFile(d, f) == [g \in DOMAIN d \cup {f} |-> IF g = f THEN <<>> ELSE d[g]]
\* File.WriteString of n tokens at the end of the file (a file that was
\* removed after it was opened has no name in the directory any more)
WriteFile(d, f, s, n) ==
    IF f \in DOMAIN d THEN [d EXCEPT ![f] = @ \o SubSeq(s, 1, n)] ELSE d

\* a Go function without result parameters returns nothing
NoResult == <<>>

Idle == pc \in {"idle", "done", "panic"}
CanFail == faults < MaxFaults

\* the locals of an invocation that has not started
FreshCtx ==
    [fn |-> "none", pc |-> "idle", status |-> 0, err |-> "nil", i |-> 0,
     mapTaskNumber |-> 0, keyValues |-> <<>>, encodingStrings |-> <<>>,
     outFiles |-> <<>>, mapCalls |-> 0,
     reduceTaskNumber |-> 0, nMap |-> 0, rKeyValues |-> <<>>, keyValuesMap |-> <<>>,
     pending |-> {}, newKeyValues |-> <<>>, encodingString |-> <<>>,
     outFile |-> "nil", reduceCalls |-> <<>>,
     created |-> {}, replaced |-> {}, stepFailed |-> FALSE, dropped |-> {}]

Init ==
    /\ disk = <<>>
    /\ nReduce \in NReduceValues
    /\ runs = 0 /\ faults = 0
    /\ fn = "none" /\ pc = "idle"
    /\ returned = NoResult
    /\ stdout = 0
    /\ status = 0 /\ err = "nil" /\ i = 0
    /\ mapTaskNumber = 0 /\ keyValues = <<>> /\ encodingStrings = <<>>
    /\ outFiles = <<>> /\ mapCalls = 0
    /\ reduceTaskNumber = 0 /\ nMap = 0 /\ rKeyValues = <<>>
    /\ keyValuesMap = <<>> /\ pending = {} /\ newKeyValues = <<>>
    /\ encodingString = <<>> /\ outFile = "nil" /\ reduceCalls = <<>>
    /\ created = {} /\ replaced = {} /\ stepFailed = FALSE /\ dropped = {}
    /\ valid = {}
    /\ other = FreshCtx /\ disk0 = <<>>

\* the locals of a function that has returned are gone
NoMapLocals ==
    /\ mapTaskNumber' = 0 /\ keyValues' = <<>> /\ encodingStrings' = <<>>
    /\ outFiles' = <<>> /\ mapCalls' = 0
NoReduceLocals ==
    /\ reduceTaskNumber' = 0 /\ nMap' = 0 /\ rKeyValues' = <<>>
    /\ keyValuesMap' = <<>> /\ pending' = {} /\ newKeyValues' = <<>>
    /\ encodingString' = <<>> /\ outFile' = "nil" /\ reduceCalls' = <<>>

(* ------------------------------- doMap --------------------------------- *)
\* (faulty variant: a buffer receives its pairs in reverse)
PartitionReversed(kvs, n, r) ==
    LET sel == SelectSeq(kvs, LAMBDA kv : ShardIndex(kv.Key, n) = r)
    IN  [k \in 1..Len(sel) |-> sel[Len(sel) + 1 - k]]
\* DoMap.go:101-117: the pairs encoded into buffer r, in the order of keyValues
Partition(kvs, n, r) == SelectSeq(kvs, LAMBDA kv : ShardIndex(kv.Key, n) = r)

\* File.Stat on a handle: fails once the handle is closed
StatHandle(h) == h = "open"

\* (faulty variant: the loop stops one shard early)
MapLoopSkipsLast(k) == IF k + 1 < nReduce THEN "stat" ELSE "finish"
\* where the loop of DoMap.go:130 goes for index k
MapLoop(k) == IF k < nReduce THEN "stat" ELSE "finish"

\* (faulty variant: the name leaves out the task's own number)
ShardFileNoTask(k) == reduceName(0, k)
\* DoMap.go:131: the name of shard k of the running map task
ShardFile(k) == reduceName(mapTaskNumber, k)

\* DoMap.go:56-126: read the input, call mapFunc, partition and encode
MapStart(m, readOk, kvs) ==
    /\ Idle /\ runs < MaxRuns
    /\ readOk \/ CanFail
    /\ runs' = runs + 1
    /\ faults' = IF readOk THEN faults ELSE faults + 1
    /\ fn' = "doMap"
    /\ mapTaskNumber' = m
    /\ i' = 0
    /\ created' = {} /\ replaced' = {}
    /\ stepFailed' = ~readOk
    /\ IF ~readOk
       THEN /\ status' = -1 /\ err' = "read"
            /\ keyValues' = <<>>
            /\ encodingStrings' = [k \in 1..nReduce |-> <<>>]
            /\ outFiles' = <<>>
            /\ mapCalls' = 0
            /\ pc' = "finish"
       ELSE /\ status' = 0 /\ err' = "nil"
            /\ keyValues' = kvs
            /\ mapCalls' = 1
            /\ IF nReduce = 0 /\ kvs # <<>>
               THEN \* ihash(kv.Key) % uint32(0): integer divide by zero
                    /\ encodingStrings' = <<>>
                    /\ outFiles' = <<>>
                    /\ pc' = "panic"
               ELSE /\ encodingStrings' =
                          [k \in 1..nReduce |-> EncodeAll(Partition(kvs, nReduce, k - 1))]
                    /\ outFiles' = [k \in 1..nReduce |-> "nil"]
                    /\ pc' = MapLoop(0)
    /\ NoReduceLocals
    /\ UNCHANGED <<disk, nReduce, returned, stdout, valid>>
    /\ dropped' = {}
    /\ UNCHANGED parVars

\* DoMap.go:137-154: os.Stat of the shard file
MapStat(ok) ==
    /\ pc = "stat"
    /\ ok \/ CanFail
    /\ LET fileName == ShardFile(i)
       IN  IF ~ok
           THEN /\ status' = -1 /\ err' = "stat" /\ pc' = "finish"
                /\ faults' = faults + 1 /\ stepFailed' = TRUE
           ELSE /\ pc' = IF Exists(fileName) THEN "remove" ELSE "create"
                /\ UNCHANGED <<status, err, faults, stepFailed>>
    /\ UNCHANGED <<disk, nReduce, runs, fn, returned, stdout, i, mapVars, redVars,
                   created, replaced, valid>>
    /\ UNCHANGED dropped
    /\ UNCHANGED parVars

\* DoMap.go:141-148: os.Remove of the shard file that exists
MapRemove(ok) ==
    /\ pc = "remove"
    /\ ok \/ CanFail
    /\ LET fileName == ShardFile(i)
       IN  IF ok /\ Exists(fileName)
           THEN /\ disk' = RemoveFile(disk, fileName)
                /\ valid' = valid \ {fileName}
                /\ replaced' = replaced \cup {fileName}
                /\ pc' = "create"
                /\ UNCHANGED <<status, err, faults, stepFailed>>
           ELSE /\ status' = -1 /\ err' = "remove" /\ pc' = "finish"
                /\ faults' = IF ok THEN faults ELSE faults + 1
                /\ stepFailed' = TRUE
                /\ UNCHANGED <<disk, valid, replaced>>
    /\ UNCHANGED <<nReduce, runs, fn, returned, stdout, i, mapVars, redVars, created>>
    /\ UNCHANGED dropped
    /\ UNCHANGED parVars

\* DoMap.go:160-167: os.Create of the shard file
MapCreate(ok) ==
    /\ pc = "create"
    /\ ok \/ CanFail
    /\ LET fileName == ShardFile(i)
       IN  IF ok
           THEN /\ disk' = CreateFile(disk, fileName)
                /\ outFiles' = [outFiles EXCEPT ![i + 1] = "open"]
                /\ created' = created \cup {fileName}
                /\ valid' = valid \ {fileName}
                /\ pc' = "write"
                /\ UNCHANGED <<status, err, faults, stepFailed>>
           ELSE /\ status' = -1 /\ err' = "create" /\ pc' = "finish"
                /\ faults' = faults + 1 /\ stepFailed' = TRUE
                /\ UNCHANGED <<disk, outFiles, created, valid>>
    /\ UNCHANGED <<nReduce, runs, fn, returned, stdout, i, mapTaskNumber, keyValues,
                   encodingStrings, mapCalls, redVars, replaced>>
    /\ UNCHANGED dropped
    /\ UNCHANGED parVars

\* DoMap.go:169-170: WriteString puts the first n tokens in the file (all of
\* them unless the write fails), Close closes the handle; both results are dropped
MapWrite(n, closeOk) ==
    /\ pc = "write"
    /\ n \in 0..Len(encodingStrings[i + 1])
    /\ (n = Len(encodingStrings[i + 1]) /\ closeOk) \/ CanFail
    /\ ~(n < Len(encodingStrings[i + 1]) /\ ~closeOk)
    /\ LET fileName == ShardFile(i)
           failed   == n < Len(encodingStrings[i + 1]) \/ ~closeOk
       IN  /\ disk' = WriteFile(disk, fileName, encodingStrings[i + 1], n)
           /\ faults' = IF failed THEN faults + 1 ELSE faults
           /\ stepFailed' = (stepFailed \/ failed)
    /\ outFiles' = [outFiles EXCEPT ![i + 1] = "closed"]
    /\ i' = i + 1
    /\ pc' = MapLoop(i + 1)
    /\ UNCHANGED <<nReduce, runs, fn, returned, stdout, status, err, mapTaskNumber,
                   keyValues, encodingStrings, mapCalls, redVars, created, replaced,
                   valid>>
    /\ dropped' = IF n < Len(encodingStrings[i + 1]) \/ ~closeOk
                  THEN dropped \cup {reduceName(mapTaskNumber, i)} ELSE dropped
    /\ UNCHANGED parVars

\* (faulty variant: the failure path removes every shard file of the task)
MapRollbackAll(files) ==
    {reduceName(mapTaskNumber, r) : r \in ReduceTasks} \cap DOMAIN disk
\* DoMap.go:182-201: the files the failure path removes, those whose handle
\* is not nil and still answers Stat
MapRollback(files) ==
    {reduceName(mapTaskNumber, k - 1) :
        k \in {j \in 1..Len(files) : files[j] # "nil" /\ StatHandle(files[j])}}

\* the files that hold the whole output of an invocation that ended with
\* status 0, once the invocation that created `names` has ended; `whole` says
\* that each of `names` holds all that was encoded for it
Commit(names, st, whole, d) ==
    IF st = 0 /\ whole THEN (valid \cup names) \cap DOMAIN d ELSE valid \cap DOMAIN d

\* DoMap.go:178-205: on failure remove the created files and print the error; return
MapFinish ==
    /\ pc = "finish" /\ fn = "doMap"
    /\ IF status # 0
       THEN /\ disk' = [f \in DOMAIN disk \ MapRollback(outFiles) |-> disk[f]]
            /\ err' = IF \E k \in 1..Len(outFiles) :
                             outFiles[k] # "nil" /\ ~StatHandle(outFiles[k])
                      THEN "file already closed" ELSE err
            /\ stdout' = stdout + 1
       ELSE UNCHANGED <<disk, err, stdout>>
    /\ returned' = NoResult
    /\ pc' = "done"
    /\ valid' = Commit(created, status,
                        \A k \in 1..Len(outFiles) :
                            outFiles[k] # "nil" =>
                                /\ reduceName(mapTaskNumber, k - 1) \in DOMAIN disk'
                                /\ disk'[reduceName(mapTaskNumber, k - 1)] = encodingStrings[k],
                        disk')
    /\ UNCHANGED <<nReduce, runs, faults, fn, status, i, mapVars, redVars,
                   created, stepFailed, replaced>>
    /\ UNCHANGED dropped
    /\ UNCHANGED parVars

(* ------------------------------ doReduce ------------------------------- *)
\* DoReduce.go:122-124: key -> the values of the pairs with that key, in the
\* order of keyValues
ValuesOf(kvs, key) ==
    LET sel == SelectSeq(kvs, LAMBDA kv : kv.Key = key)
    IN  [k \in 1..Len(sel) |-> sel[k].Value]
\* (faulty variant: the values of a key are prepended)
GroupValuesReversed(kvs) ==
    [key \in {kvs[k].Key : k \in 1..Len(kvs)} |->
        LET vs == ValuesOf(kvs, key) IN [k \in 1..Len(vs) |-> vs[Len(vs) + 1 - k]]]
GroupValues(kvs) ==
    [key \in {kvs[k].Key : k \in 1..Len(kvs)} |-> ValuesOf(kvs, key)]

\* (faulty variant: the loop stops one shard early)
ReduceLoopSkipsLast(k, n, st) ==
    IF k + 1 < n THEN "rstat" ELSE IF st = 0 THEN "group" ELSE "rfinish"
\* where the loop of DoReduce.go:63 goes for index k, and where the function
\* goes after the loop: every later block is skipped unless status is 0
ReduceLoop(k, n, st) ==
    IF k < n THEN "rstat" ELSE IF st = 0 THEN "group" ELSE "rfinish"

\* DoReduce.go:54-60: entry
ReduceStart(r, n) ==
    /\ Idle /\ runs < MaxRuns
    /\ runs' = runs + 1
    /\ fn' = "doReduce"
    /\ reduceTaskNumber' = r /\ nMap' = n
    /\ status' = 0 /\ err' = "nil" /\ i' = 0
    /\ rKeyValues' = <<>> /\ keyValuesMap' = <<>> /\ pending' = {}
    /\ newKeyValues' = <<>> /\ encodingString' = <<>> /\ outFile' = "nil"
    /\ reduceCalls' = <<>>
    /\ created' = {} /\ replaced' = {} /\ stepFailed' = FALSE
    /\ pc' = ReduceLoop(0, n, 0)
    /\ NoMapLocals
    /\ UNCHANGED <<disk, nReduce, faults, returned, stdout, valid>>
    /\ dropped' = {}
    /\ UNCHANGED parVars

\* (faulty variant: a shard that does not exist is a failure)
AbsentIsError(st) == -1
\* DoReduce.go:68-71: status after os.Stat answered that shard i does not
\* exist: the error is ignored
AbsentStatus(st) == st

\* DoReduce.go:64-77: os.Stat of shard i; an absent shard is skipped
ReduceStat(ok) ==
    /\ pc = "rstat"
    /\ ok \/ CanFail
    /\ LET fileName == reduceName(i, reduceTaskNumber)
       IN  IF ~ok
           THEN /\ status' = -1 /\ err' = "stat" /\ pc' = "rfinish"
                /\ faults' = faults + 1 /\ stepFailed' = TRUE
                /\ UNCHANGED i
           ELSE /\ IF Exists(fileName)
                   THEN pc' = "ropen" /\ UNCHANGED <<i, status>>
                   ELSE /\ status' = AbsentStatus(status)
                        /\ pc' = ReduceLoop(i + 1, nMap, status')
                        /\ i' = i + 1
                /\ UNCHANGED <<err, faults, stepFailed>>
    /\ UNCHANGED <<disk, nReduce, runs, fn, returned, stdout, mapVars, redVars,
                   created, replaced, valid>>
    /\ UNCHANGED dropped
    /\ UNCHANGED parVars

\* DoReduce.go:80-110: os.Open of shard i and the decode loop.  Open fails
\* when the file has been removed since the Stat.  A decode error leaves the
\* inner loop only: the loop over the shards goes on
ReduceRead(ok) ==
    /\ pc = "ropen"
    /\ ok \/ CanFail
    /\ LET fileName == reduceName(i, reduceTaskNumber)
           dec      == Decode(disk[fileName])
       IN  IF ~ok \/ ~Exists(fileName)
           THEN /\ status' = -1 /\ err' = "open" /\ pc' = "rfinish"
                /\ faults' = IF ok THEN faults ELSE faults + 1
                /\ stepFailed' = TRUE
                /\ UNCHANGED <<i, rKeyValues>>
           ELSE /\ rKeyValues' = rKeyValues \o dec.kvs
                /\ status' = IF dec.ok THEN status ELSE -1
                /\ err' = IF dec.ok THEN err ELSE "decode"
                /\ stepFailed' = (stepFailed \/ ~dec.ok)
                /\ i' = i + 1
                /\ pc' = ReduceLoop(i + 1, nMap, status')
                /\ UNCHANGED faults
    /\ UNCHANGED <<disk, nReduce, runs, fn, returned, stdout, mapVars,
                   reduceTaskNumber, nMap, keyValuesMap, pending, newKeyValues,
                   encodingString, outFile, reduceCalls, created, replaced, valid>>
    /\ UNCHANGED dropped
    /\ UNCHANGED parVars

\* DoReduce.go:117-125: the key-to-values map
ReduceGroup ==
    /\ pc = "group"
    /\ keyValuesMap' = GroupValues(rKeyValues)
    /\ pending' = DOMAIN keyValuesMap'
    /\ pc' = IF pending' = {} THEN "encode" ELSE "call"
    /\ UNCHANGED <<disk, nReduce, runs, faults, fn, returned, stdout, status, err, i,
                   mapVars, reduceTaskNumber, nMap, rKeyValues, newKeyValues,
                   encodingString, outFile, reduceCalls, histVars>>
    /\ UNCHANGED parVars

\* (faulty variant: the loop goes on after the failure signal)
AfterCallIgnoringError(ret, rest) == IF rest = {} THEN "encode" ELSE "call"
\* where the loop of DoReduce.go:135 goes after a call that returned ret
AfterCall(ret, rest) ==
    IF ret = "error" THEN "rfinish" ELSE IF rest = {} THEN "encode" ELSE "call"

\* DoReduce.go:135-146: one iteration of `range keyValuesMap` (the keys come
\* in any order).  reduceFunc returns a string: it signals failure (sig) by
\* returning "error", and otherwise returns its result, any text
ReduceCall(key, sig, text) ==
    /\ pc = "call"
    /\ key \in pending
    /\ sig => (CanFail /\ text = "error")
    /\ LET newValue == text
       IN  /\ reduceCalls' = Append(reduceCalls,
                                [Key |-> key, Values |-> keyValuesMap[key], Result |-> newValue])
           /\ pending' = pending \ {key}
           /\ pc' = AfterCall(newValue, pending')
           /\ IF newValue = "error"
              THEN /\ status' = -1 /\ err' = "Reduce Function Error"
                   /\ UNCHANGED newKeyValues
              ELSE /\ newKeyValues' = Append(newKeyValues, [Key |-> key, Value |-> newValue])
                   /\ UNCHANGED <<status, err>>
    /\ faults' = IF sig THEN faults + 1 ELSE faults
    /\ stepFailed' = (stepFailed \/ sig)
    /\ UNCHANGED <<disk, nReduce, runs, fn, returned, stdout, i, mapVars,
                   reduceTaskNumber, nMap, rKeyValues, keyValuesMap, encodingString,
                   outFile, created, replaced, valid>>
    /\ UNCHANGED dropped
    /\ UNCHANGED parVars

\* DoReduce.go:152-174: encode the results
ReduceEncode ==
    /\ pc = "encode"
    /\ encodingString' = EncodeAll(newKeyValues)
    /\ pc' = "mstat"
    /\ UNCHANGED <<disk, nReduce, runs, faults, fn, returned, stdout, status, err, i,
                   mapVars, reduceTaskNumber, nMap, rKeyValues, keyValuesMap, pending,
                   newKeyValues, outFile, reduceCalls, histVars>>
    /\ UNCHANGED parVars

\* DoReduce.go:188-203: os.Stat of the merge file
ReduceMergeStat(ok) ==
    /\ pc = "mstat"
    /\ ok \/ CanFail
    /\ IF ~ok
       THEN /\ status' = -1 /\ err' = "stat" /\ pc' = "rfinish"
            /\ faults' = faults + 1 /\ stepFailed' = TRUE
       ELSE /\ pc' = IF Exists(mergeName(reduceTaskNumber)) THEN "mremove" ELSE "mcreate"
            /\ UNCHANGED <<status, err, faults, stepFailed>>
    /\ UNCHANGED <<disk, nReduce, runs, fn, returned, stdout, i, mapVars, redVars,
                   created, replaced, valid>>
    /\ UNCHANGED dropped
    /\ UNCHANGED parVars

\* DoReduce.go:192-198: os.Remove of the merge file that exists
ReduceMergeRemove(ok) ==
    /\ pc = "mremove"
    /\ ok \/ CanFail
    /\ IF ok /\ Exists(mergeName(reduceTaskNumber))
       THEN /\ disk' = RemoveFile(disk, mergeName(reduceTaskNumber))
            /\ valid' = valid \ {mergeName(reduceTaskNumber)}
            /\ replaced' = replaced \cup {mergeName(reduceTaskNumber)}
            /\ pc' = "mcreate"
            /\ UNCHANGED <<status, err, faults, stepFailed>>
       ELSE /\ status' = -1 /\ err' = "remove" /\ pc' = "rfinish"
            /\ faults' = IF ok THEN faults ELSE faults + 1
            /\ stepFailed' = TRUE
            /\ UNCHANGED <<disk, valid, replaced>>
    /\ UNCHANGED <<nReduce, runs, fn, returned, stdout, i, mapVars, redVars, created>>
    /\ UNCHANGED dropped
    /\ UNCHANGED parVars

\* DoReduce.go:209-215: os.Create of the merge file
ReduceMergeCreate(ok) ==
    /\ pc = "mcreate"
    /\ ok \/ CanFail
    /\ IF ok
       THEN /\ disk' = CreateFile(disk, mergeName(reduceTaskNumber))
            /\ outFile' = "open"
            /\ created' = created \cup {mergeName(reduceTaskNumber)}
            /\ valid' = valid \ {mergeName(reduceTaskNumber)}
            /\ pc' = "mwrite"
            /\ UNCHANGED <<status, err, faults, stepFailed>>
       ELSE /\ status' = -1 /\ err' = "create" /\ pc' = "rfinish"
            /\ faults' = faults + 1 /\ stepFailed' = TRUE
            /\ UNCHANGED <<disk, outFile, created, valid>>
    /\ UNCHANGED <<nReduce, runs, fn, returned, stdout, i, mapVars,
                   reduceTaskNumber, nMap, rKeyValues, keyValuesMap, pending,
                   newKeyValues, encodingString, reduceCalls, replaced>>
    /\ UNCHANGED dropped
    /\ UNCHANGED parVars

\* DoReduce.go:216-217: WriteString and Close, results dropped
ReduceMergeWrite(n, closeOk) ==
    /\ pc = "mwrite"
    /\ n \in 0..Len(encodingString)
    /\ (n = Len(encodingString) /\ closeOk) \/ CanFail
    /\ ~(n < Len(encodingString) /\ ~closeOk)
    /\ LET failed == n < Len(encodingString) \/ ~closeOk
       IN  /\ disk' = WriteFile(disk, mergeName(reduceTaskNumber), encodingString, n)
           /\ faults' = IF failed THEN faults + 1 ELSE faults
           /\ stepFailed' = (stepFailed \/ failed)
    /\ outFile' = "closed"
    /\ pc' = "rfinish"
    /\ UNCHANGED <<nReduce, runs, fn, returned, stdout, status, err, i, mapVars,
                   reduceTaskNumber, nMap, rKeyValues, keyValuesMap, pending,
                   newKeyValues, encodingString, reduceCalls, created, replaced, valid>>
    /\ dropped' = IF n < Len(encodingString) \/ ~closeOk
                  THEN dropped \cup {mergeName(reduceTaskNumber)} ELSE dropped
    /\ UNCHANGED parVars

\* DoReduce.go:225-250: on failure remove the merge file if this invocation
\* created it and its handle answers Stat, print the error; return
ReduceFinish ==
    /\ pc = "rfinish"
    /\ IF status # 0
       THEN /\ disk' = IF outFile # "nil" /\ StatHandle(outFile)
                       THEN RemoveFile(disk, mergeName(reduceTaskNumber)) ELSE disk
            /\ err' = IF outFile # "nil" /\ ~StatHandle(outFile)
                      THEN "file already closed" ELSE err
            /\ stdout' = stdout + 1
       ELSE UNCHANGED <<disk, err, stdout>>
    /\ returned' = NoResult
    /\ pc' = "done"
    /\ valid' = Commit(created, status,
                        outFile # "nil" =>
                            /\ mergeName(reduceTaskNumber) \in DOMAIN disk'
                            /\ disk'[mergeName(reduceTaskNumber)] = encodingString,
                        disk')
    /\ UNCHANGED <<nReduce, runs, faults, fn, status, i, mapVars, redVars,
                   created, stepFailed, replaced>>
    /\ UNCHANGED dropped
    /\ UNCHANGED parVars

Next ==
    \/ \E m \in MapTasks, readOk \in BOOLEAN, kvs \in MapOutputs : MapStart(m, readOk, kvs)
    \/ \E ok \in BOOLEAN : MapStat(ok)
    \/ \E ok \in BOOLEAN : MapRemove(ok)
    \/ \E ok \in BOOLEAN : MapCreate(ok)
    \/ \E n \in 0..(2 * MaxLen), closeOk \in BOOLEAN : MapWrite(n, closeOk)
    \/ MapFinish
    \/ \E r \in ReduceTasks, n \in NMapValues : ReduceStart(r, n)
    \/ \E ok \in BOOLEAN : ReduceStat(ok)
    \/ \E ok \in BOOLEAN : ReduceRead(ok)
    \/ ReduceGroup
    \/ \E key \in Keys, sig \in BOOLEAN, text \in ResultTexts : ReduceCall(key, sig, text)
    \/ ReduceEncode
    \/ \E ok \in BOOLEAN : ReduceMergeStat(ok)
    \/ \E ok \in BOOLEAN : ReduceMergeRemove(ok)
    \/ \E ok \in BOOLEAN : ReduceMergeCreate(ok)
    \/ \E n \in 0..(2 * MaxLen * Cardinality(MapTasks)), closeOk \in BOOLEAN :
           ReduceMergeWrite(n, closeOk)
    \/ ReduceFinish

Spec == Init /\ [][Next]_vars

(* ------------------- doReduce on shard files of any text ---------------- *)
\* the pieces of text a shard file is made of when something else than a
\* doMap that ran to its end has written it: whole records, the first half
\* of a record, a stray bracket, an object without "Value"
ShardItems ==
    {Encode(kv) : kv \in KeyValue}
        \cup {<<[t |-> "K", s |-> "a"]>>, <<StrayBracket>>, <<KeyOnlyObject("b")>>}

RECURSIVE Flatten(_)
Flatten(ss) == IF ss = <<>> THEN <<>> ELSE Head(ss) \o Flatten(Tail(ss))

ShardContents == {Flatten(ss) : ss \in SeqsUpTo(ShardItems, MaxLen)}

\* shard (0, 0) holds any of these texts; nothing has run yet
InitCorrupt ==
    /\ \E c \in ShardContents : disk = [f \in {reduceName(0, 0)} |-> c]
    /\ disk0 = disk
    /\ nReduce = 1
    /\ runs = 0 /\ faults = 0
    /\ fn = "none" /\ pc = "idle"
    /\ returned = NoResult
    /\ stdout = 0
    /\ status = 0 /\ err = "nil" /\ i = 0
    /\ mapTaskNumber = 0 /\ keyValues = <<>> /\ encodingStrings = <<>>
    /\ outFiles = <<>> /\ mapCalls = 0
    /\ reduceTaskNumber = 0 /\ nMap = 0 /\ rKeyValues = <<>>
    /\ keyValuesMap = <<>> /\ pending = {} /\ newKeyValues = <<>>
    /\ encodingString = <<>> /\ outFile = "nil" /\ reduceCalls = <<>>
    /\ created = {} /\ replaced = {} /\ stepFailed = FALSE /\ dropped = {}
    /\ valid = {}
    /\ other = FreshCtx

NextReduce ==
    \/ \E r \in ReduceTasks, n \in NMapValues : ReduceStart(r, n)
    \/ \E ok \in BOOLEAN : ReduceStat(ok)
    \/ \E ok \in BOOLEAN : ReduceRead(ok)
    \/ ReduceGroup
    \/ \E key \in Keys, sig \in BOOLEAN, text \in ResultTexts : ReduceCall(key, sig, text)
    \/ ReduceEncode
    \/ \E ok \in BOOLEAN : ReduceMergeStat(ok)
    \/ \E ok \in BOOLEAN : ReduceMergeRemove(ok)
    \/ \E ok \in BOOLEAN : ReduceMergeCreate(ok)
    \/ \E n \in 0..(2 * MaxLen * Cardinality(MapTasks)), closeOk \in BOOLEAN :
           ReduceMergeWrite(n, closeOk)
    \/ ReduceFinish

SpecCorrupt == InitCorrupt /\ [][NextReduce]_vars

(* ----------------------- two invocations at a time ---------------------- *)
\* the locals of the running invocation
Ctx ==
    [fn |-> fn, pc |-> pc, status |-> status, err |-> err, i |-> i,
     mapTaskNumber |-> mapTaskNumber, keyValues |-> keyValues,
     encodingStrings |-> encodingStrings, outFiles |-> outFiles, mapCalls |-> mapCalls,
     reduceTaskNumber |-> reduceTaskNumber, nMap |-> nMap, rKeyValues |-> rKeyValues,
     keyValuesMap |-> keyValuesMap, pending |-> pending, newKeyValues |-> newKeyValues,
     encodingString |-> encodingString, outFile |-> outFile, reduceCalls |-> reduceCalls,
     created |-> created, replaced |-> replaced, stepFailed |-> stepFailed,
     dropped |-> dropped]

\* the scheduler suspends the running invocation between two of its steps
\* and resumes the other one (or lets a second invocation begin)
Switch ==
    /\ pc # "idle" \/ other.pc # "idle"
    /\ other.pc \notin {"done", "panic"}
    /\ other' = Ctx
    /\ fn' = other.fn /\ pc' = other.pc /\ status' = other.status
    /\ err' = other.err /\ i' = other.i
    /\ mapTaskNumber' = other.mapTaskNumber /\ keyValues' = other.keyValues
    /\ encodingStrings' = other.encodingStrings /\ outFiles' = other.outFiles
    /\ mapCalls' = other.mapCalls
    /\ reduceTaskNumber' = other.reduceTaskNumber /\ nMap' = other.nMap
    /\ rKeyValues' = other.rKeyValues /\ keyValuesMap' = other.keyValuesMap
    /\ pending' = other.pending /\ newKeyValues' = other.newKeyValues
    /\ encodingString' = other.encodingString /\ outFile' = other.outFile
    /\ reduceCalls' = other.reduceCalls
    /\ created' = other.created /\ replaced' = other.replaced
    /\ stepFailed' = other.stepFailed /\ dropped' = other.dropped
    /\ UNCHANGED <<disk, nReduce, runs, faults, returned, stdout, valid, disk0>>

\* what an earlier doMap and an earlier doReduce left behind
PriorOutput == << [Key |-> "a", Value |-> "1"], [Key |-> "b", Value |-> "3"] >>
PriorResult == << [Key |-> "a", Value |-> "1"] >>
PriorDisk(n, ms, rs) ==
    LET shards == {reduceName(m, r) : m \in ms, r \in 0..(n - 1)}
        merges == {mergeName(r) : r \in rs}
    IN  [f \in shards \cup merges |->
            IF f \in shards THEN EncodeAll(Partition(PriorOutput, n, f[3]))
            ELSE EncodeAll(PriorResult)]

\* the directory holds the output of earlier invocations that succeeded; no
\* os call fails from here on
InitPar ==
    /\ nReduce \in NReduceValues \ {0}
    /\ \E ms \in SUBSET MapTasks, rs \in {{}, ReduceTasks} :
           disk = PriorDisk(nReduce, ms, rs)
    /\ disk0 = disk
    /\ valid = DOMAIN disk
    /\ runs = 0 /\ faults = MaxFaults
    /\ fn = "none" /\ pc = "idle"
    /\ returned = NoResult
    /\ stdout = 0
    /\ status = 0 /\ err = "nil" /\ i = 0
    /\ mapTaskNumber = 0 /\ keyValues = <<>> /\ encodingStrings = <<>>
    /\ outFiles = <<>> /\ mapCalls = 0
    /\ reduceTaskNumber = 0 /\ nMap = 0 /\ rKeyValues = <<>>
    /\ keyValuesMap = <<>> /\ pending = {} /\ newKeyValues = <<>>
    /\ encodingString = <<>> /\ outFile = "nil" /\ reduceCalls = <<>>
    /\ created = {} /\ replaced = {} /\ stepFailed = FALSE /\ dropped = {}
    /\ other = FreshCtx

\* two invocations, each begun once; two of the same function have different
\* task numbers
NextPar ==
    \/ \E m \in MapTasks, kvs \in MapOutputs :
           /\ pc = "idle"
           /\ ~(other.fn = "doMap" /\ other.mapTaskNumber = m)
           /\ MapStart(m, TRUE, kvs)
    \/ MapStat(TRUE)
    \/ MapRemove(TRUE)
    \/ MapCreate(TRUE)
    \/ \E n \in 0..(2 * MaxLen) : MapWrite(n, TRUE)
    \/ MapFinish
    \/ \E r \in ReduceTasks, n \in NMapValues :
           /\ pc = "idle"
           /\ ~(other.fn = "doReduce" /\ other.reduceTaskNumber = r)
           /\ ReduceStart(r, n)
    \/ ReduceStat(TRUE)
    \/ ReduceRead(TRUE)
    \/ ReduceGroup
    \/ \E key \in Keys, text \in ResultTexts : ReduceCall(key, FALSE, text)
    \/ ReduceEncode
    \/ ReduceMergeStat(TRUE)
    \/ ReduceMergeRemove(TRUE)
    \/ ReduceMergeCreate(TRUE)
    \/ \E n \in 0..(2 * MaxLen * Cardinality(MapTasks)) : ReduceMergeWrite(n, TRUE)
    \/ ReduceFinish
    \/ Switch

SpecPar == InitPar /\ [][NextPar]_vars

(* ------------------------------ properties ----------------------------- *)
Done(f) == pc = "done" /\ fn = f
\* the invocation is one in which no step failed and status stayed 0
Succeeded == status = 0 /\ ~stepFailed

Count(seq, x) == Cardinality({k \in DOMAIN seq : seq[k] = x})
Stored(f) == Decode(disk[f])

\* the pairs stored in the shards (0..n-1, r) that exist, by ascending map index
RECURSIVE StoredPairs(_, _)
StoredPairs(r, n) ==
    IF n = 0 THEN <<>>
    ELSE StoredPairs(r, n - 1) \o
         (IF Exists(reduceName(n - 1, r)) THEN Stored(reduceName(n - 1, r)).kvs ELSE <<>>)

RECURSIVE ValueList(_, _)
ValueList(kvs, key) ==
    IF kvs = <<>> THEN <<>>
    ELSE (IF Head(kvs).Key = key THEN <<Head(kvs).Value>> ELSE <<>>) \o ValueList(Tail(kvs), key)

KeysIn(kvs) == {kvs[k].Key : k \in DOMAIN kvs}

\* C1: after a doMap with nReduce > 0 in which no step failed, every shard
\* file 0..nReduce-1 of the task exists and decodes, and each pair is stored
\* as often as mapFunc returned it in shard ihash(key) % nReduce and nowhere else
C1_Conservation ==
    (Done("doMap") /\ Succeeded /\ nReduce > 0) =>
        \A r \in 0..(nReduce - 1) :
            /\ Exists(reduceName(mapTaskNumber, r))
            /\ Stored(reduceName(mapTaskNumber, r)).ok
            /\ \A k \in DOMAIN Stored(reduceName(mapTaskNumber, r)).kvs :
                   Stored(reduceName(mapTaskNumber, r)).kvs[k] \in KeyValue
            /\ \A kv \in KeyValue :
                   Count(Stored(reduceName(mapTaskNumber, r)).kvs, kv) =
                       IF r = Mod32(ihash(kv.Key), nReduce) THEN Count(keyValues, kv) ELSE 0

C1_Witness ==
    /\ Done("doMap") /\ Succeeded /\ nReduce = 2
    /\ Len(keyValues) = 2 /\ keyValues[1].Key # keyValues[2].Key
    /\ Stored(reduceName(mapTaskNumber, 0)).kvs # <<>>
    /\ Stored(reduceName(mapTaskNumber, 1)).kvs # <<>>

\* C2: when a doMap invocation has failed, none of the shard files it created
\* is on disk any more
C2_RollbackRemovesCreated ==
    (Done("doMap") /\ status # 0) => created \cap DOMAIN disk = {}

\* C3: between invocations every file on disk holds the whole output of an
\* invocation that succeeded
C3_FilesAbsentOrComplete ==
    Idle => DOMAIN disk \subseteq valid

\* C4: after a doMap in which no step failed, the shard files of the task are
\* exactly the nReduce files 0..nReduce-1 and each holds what this invocation
\* encoded for it, whatever was there before; likewise the merge file after a
\* doReduce in which no step failed
C4_OverwriteOnRerun ==
    /\ (Done("doMap") /\ Succeeded) =>
          /\ {f \in DOMAIN disk : \E r \in ReduceTasks : f = reduceName(mapTaskNumber, r)}
                = {reduceName(mapTaskNumber, r) : r \in 0..(nReduce - 1)}
          /\ \A r \in 0..(nReduce - 1) :
                 disk[reduceName(mapTaskNumber, r)] = encodingStrings[r + 1]
    /\ (Done("doReduce") /\ Succeeded) =>
          /\ Exists(mergeName(reduceTaskNumber))
          /\ disk[mergeName(reduceTaskNumber)] = encodingString

C4_Witness ==
    /\ Done("doMap") /\ Succeeded /\ nReduce = 2
    /\ replaced = {reduceName(mapTaskNumber, 0), reduceName(mapTaskNumber, 1)}
    /\ keyValues # <<>>

\* C5: after a doReduce in which no step failed, the merge file decodes to one
\* record per key stored in the shards that exist and to no other record, and
\* a record's value is what reduceFunc returned for its key
C5_MergeFileContent ==
    (Done("doReduce") /\ Succeeded) =>
        /\ Exists(mergeName(reduceTaskNumber))
        /\ LET merged == Stored(mergeName(reduceTaskNumber))
               keys   == KeysIn(StoredPairs(reduceTaskNumber, nMap))
           IN  /\ merged.ok
               /\ KeysIn(merged.kvs) = keys
               /\ Len(merged.kvs) = Cardinality(keys)
               /\ \A k \in DOMAIN merged.kvs :
                      \E c \in DOMAIN reduceCalls :
                          /\ reduceCalls[c].Key = merged.kvs[k].Key
                          /\ reduceCalls[c].Result = merged.kvs[k].Value

C5_Witness ==
    /\ Done("doReduce") /\ Succeeded /\ nMap = 2
    /\ Exists(reduceName(0, reduceTaskNumber)) /\ Exists(reduceName(1, reduceTaskNumber))
    /\ Len(Stored(mergeName(reduceTaskNumber)).kvs) = 2

\* C6: every call of reduceFunc gets the values stored for its key, shards by
\* ascending map index and pairs in stored order, and a doReduce in which no
\* step failed has called it for every stored key
C6_GroupingOrder ==
    (fn = "doReduce") =>
        /\ \A c \in DOMAIN reduceCalls :
               reduceCalls[c].Values =
                   ValueList(StoredPairs(reduceTaskNumber, nMap), reduceCalls[c].Key)
        /\ (pc = "done" /\ Succeeded) =>
               {reduceCalls[c].Key : c \in DOMAIN reduceCalls} =
                   KeysIn(StoredPairs(reduceTaskNumber, nMap))

C6_Witness ==
    /\ Done("doReduce") /\ nMap = 2
    /\ Exists(reduceName(0, reduceTaskNumber)) /\ Exists(reduceName(1, reduceTaskNumber))
    /\ Stored(reduceName(0, reduceTaskNumber)).kvs = << [Key |-> "a", Value |-> "1"] >>
    /\ Stored(reduceName(1, reduceTaskNumber)).kvs =
           << [Key |-> "a", Value |-> "2"], [Key |-> "b", Value |-> "3"] >>
    /\ \E c \in DOMAIN reduceCalls :
           reduceCalls[c].Key = "a" /\ reduceCalls[c].Values = <<"1", "2">>
    /\ \E c \in DOMAIN reduceCalls :
           reduceCalls[c].Key = "b" /\ reduceCalls[c].Values = <<"3">>

\* C7: after a doMap in which no step failed, a shard holds the pairs of its
\* index in the order in which mapFunc returned them
C7_ShardOrder ==
    (Done("doMap") /\ Succeeded) =>
        \A r \in 0..(nReduce - 1) :
            Stored(reduceName(mapTaskNumber, r)).kvs =
                SelectSeq(keyValues, LAMBDA kv : Mod32(ihash(kv.Key), nReduce) = r)

C7_Witness ==
    /\ Done("doMap") /\ Succeeded
    /\ \E r \in 0..(nReduce - 1) :
           LET kvs == Stored(reduceName(mapTaskNumber, r)).kvs
           IN  Len(kvs) = 2 /\ kvs[1].Value = "2" /\ kvs[2].Value = "1"

\* C8: an invocation that failed returns something else to its caller than
\* the nothing an invocation that succeeded returns
C8_FailureIsReturned ==
    (pc = "done" /\ status # 0) => returned # NoResult

\* C9: a doReduce in which no step failed and reduceFunc signalled no failure
\* ends with status 0 and the merge file holds (key, result) for every call
C9_AnyTextIsAResult ==
    (Done("doReduce") /\ ~stepFailed) =>
        /\ status = 0
        /\ Exists(mergeName(reduceTaskNumber))
        /\ \A c \in DOMAIN reduceCalls :
               \E k \in DOMAIN Stored(mergeName(reduceTaskNumber)).kvs :
                   Stored(mergeName(reduceTaskNumber)).kvs[k] =
                       [Key |-> reduceCalls[c].Key, Value |-> reduceCalls[c].Result]

\* C10: the call in which reduceFunc signals failure is the last call of the
\* invocation, which goes straight to its end without removing, creating or
\* writing a merge file
C10_AbortOnReduceFailure ==
    (fn = "doReduce") =>
        \A c \in DOMAIN reduceCalls :
            reduceCalls[c].Result = "error" =>
                /\ c = Len(reduceCalls)
                /\ pc \in {"rfinish", "done"}
                /\ status # 0
                /\ created = {} /\ replaced = {} /\ outFile = "nil"
                /\ newKeyValues = [k \in 1..(c - 1) |->
                       [Key |-> reduceCalls[k].Key, Value |-> reduceCalls[k].Result]]

C10_Witness ==
    /\ Done("doReduce")
    /\ reduceCalls # <<>>
    /\ reduceCalls[Len(reduceCalls)].Result = "error"
    /\ pending # {}

\* byte-wise order of two keys (the order of Go's string comparison)
RECURSIVE BytesLess(_, _)
BytesLess(x, y) ==
    IF y = <<>> THEN FALSE
    ELSE IF x = <<>> THEN TRUE
    ELSE IF Head(x) # Head(y) THEN Head(x) < Head(y)
    ELSE BytesLess(Tail(x), Tail(y))
KeyLess(k1, k2) == BytesLess(Bytes(k1), Bytes(k2))

\* C11: doReduce calls reduceFunc in ascending key order, and the records of
\* the merge file are in ascending key order
C11_KeysInSortedOrder ==
    (fn = "doReduce") =>
        /\ \A c, d \in DOMAIN reduceCalls :
               c < d => KeyLess(reduceCalls[c].Key, reduceCalls[d].Key)
        /\ (pc = "done" /\ Succeeded) =>
               LET merged == Stored(mergeName(reduceTaskNumber)).kvs
               IN  \A c, d \in DOMAIN merged : c < d => KeyLess(merged[c].Key, merged[d].Key)

\* C12: a doMap invocation with nReduce <= 0 never evaluates
\* ihash(key) % nReduce (the division by zero that ends the process) and never
\* ends with status 0
C12_FailFastOnZeroShards ==
    (fn = "doMap" /\ nReduce <= 0) =>
        /\ pc # "panic"
        /\ pc = "done" => status # 0

\* C13: a shard that does not exist contributes no pair and is no failure: a
\* doReduce in which no step failed and reduceFunc returned no failure signal
\* ends with status 0 whichever shards are absent, has grouped exactly the
\* pairs of the shards that exist, and has written a merge file, an empty one
\* when no shard holds a pair
C13_AbsentShardTolerated ==
    /\ (fn = "doReduce" /\ pc = "group") =>
           rKeyValues = StoredPairs(reduceTaskNumber, nMap)
    /\ (Done("doReduce") /\ ~stepFailed
            /\ \A c \in DOMAIN reduceCalls : reduceCalls[c].Result # "error") =>
           /\ status = 0
           /\ rKeyValues = StoredPairs(reduceTaskNumber, nMap)
           /\ DOMAIN keyValuesMap = KeysIn(StoredPairs(reduceTaskNumber, nMap))
           /\ Len(reduceCalls) = Cardinality(KeysIn(StoredPairs(reduceTaskNumber, nMap)))
           /\ Exists(mergeName(reduceTaskNumber))
           /\ Len(Stored(mergeName(reduceTaskNumber)).kvs) = Len(reduceCalls)
           /\ (\A m \in 0..(nMap - 1) : ~Exists(reduceName(m, reduceTaskNumber))) =>
                  disk[mergeName(reduceTaskNumber)] = <<>>

C13_Witness ==
    /\ Done("doReduce") /\ status = 0 /\ ~stepFailed /\ nMap = 2
    /\ ~Exists(reduceName(0, reduceTaskNumber))
    /\ Exists(reduceName(1, reduceTaskNumber))
    /\ Stored(reduceName(1, reduceTaskNumber)).kvs = << [Key |-> "a", Value |-> "1"] >>
    /\ reduceCalls = << [Key |-> "a", Values |-> <<"1">>, Result |-> "1"] >>
    /\ Stored(mergeName(reduceTaskNumber)).kvs = << [Key |-> "a", Value |-> "1"] >>

\* C14: the shard index of a key is ihash(key) % nReduce computed on unsigned
\* 32-bit values (FNV-1a of the key's bytes), it lies in 0..nReduce-1, and
\* every pair stored by any doMap invocation of any map task lies in the shard
\* of that index
C14_PartitionRange ==
    /\ \A key \in Keys :
           /\ ihash(key).hi \in 0..(Half - 1) /\ ihash(key).lo \in 0..(Half - 1)
           /\ \A n \in NReduceValues \ {0} :
                  ShardIndex(key, n) \in 0..(n - 1)
    /\ ihash("a") = [hi |-> 58380, lo |-> 10540]
    /\ ihash("b") = [hi |-> 59148, lo |-> 11749]
    /\ \A m \in MapTasks, r \in ReduceTasks :
           Exists(reduceName(m, r)) =>
               /\ r \in 0..(nReduce - 1)
               /\ \A k \in DOMAIN Stored(reduceName(m, r)).kvs :
                      ShardIndex(Stored(reduceName(m, r)).kvs[k].Key, nReduce) = r

C14_Witness ==
    /\ Idle /\ nReduce = 2
    /\ \A m \in MapTasks :
           /\ Exists(reduceName(m, 0)) /\ Exists(reduceName(m, 1))
           /\ \E k \in DOMAIN Stored(reduceName(m, 0)).kvs :
                  Stored(reduceName(m, 0)).kvs[k].Key = "a"
           /\ \E k \in DOMAIN Stored(reduceName(m, 1)).kvs :
                  Stored(reduceName(m, 1)).kvs[k].Key = "b"

\* C15: when reading the input file fails, doMap ends as a failure without
\* having called mapFunc and without having created, removed or changed any
\* file: every step of such an invocation leaves the directory as it was
C15_ReadFailureNoEffect ==
    [][(fn' = "doMap" /\ err' = "read") =>
           /\ disk' = disk
           /\ mapCalls' = 0
           /\ created' = {} /\ replaced' = {}
           /\ status' # 0
           /\ pc' \in {"finish", "done"}]_vars

C15_Witness ==
    /\ Done("doMap") /\ err = "read" /\ status # 0
    /\ mapCalls = 0 /\ stdout > 0
    /\ Exists(reduceName(mapTaskNumber, 0))
    /\ disk[reduceName(mapTaskNumber, 0)] # <<>>

\* C17: when WriteString or Close on a shard file or merge file has failed,
\* the invocation ends with a non-zero status, prints the error, and the file
\* is not on disk afterwards
C17_WriteFailureAborts ==
    (pc = "done" /\ dropped # {}) =>
        /\ status # 0
        /\ dropped \cap DOMAIN disk = {}

\* C20: once a step of the shard-reading loop of doReduce has failed (Stat,
\* Open or the decoding of a record), no further shard is stat-ed, opened or
\* decoded, and the error kept is the error of that step
C20_ShortCircuit ==
    [][(fn = "doReduce" /\ status # 0 /\ pc \in {"rstat", "ropen", "rfinish"}) =>
           /\ i' = i
           /\ rKeyValues' = rKeyValues
           /\ err' = err
           /\ pc' \in {"rfinish", "done"}]_vars

\* the text is a sequence of whole records
WellFormed(content) ==
    /\ Len(content) % 2 = 0
    /\ \A k \in DOMAIN content : content[k].t = (IF k % 2 = 1 THEN "K" ELSE "V")

\* the whole records of a text, in order
RECURSIVE RecordsOf(_)
RecordsOf(content) ==
    IF content = <<>> THEN <<>>
    ELSE IF Len(content) >= 2 /\ content[1].t = "K" /\ content[2].t = "V"
         THEN <<[Key |-> content[1].s, Value |-> content[2].s]>>
                  \o RecordsOf(SubSeq(content, 3, Len(content)))
         ELSE RecordsOf(Tail(content))

\* the records of the shards (0..n-1, r) that exist, by ascending map index
RECURSIVE StoredRecords(_, _)
StoredRecords(r, n) ==
    IF n = 0 THEN <<>>
    ELSE StoredRecords(r, n - 1) \o
         (IF Exists(reduceName(n - 1, r)) THEN RecordsOf(disk[reduceName(n - 1, r)]) ELSE <<>>)

\* C18: when a shard that exists holds a truncated or malformed record, the
\* doReduce that reads it ends as a failure without having called reduceFunc
\* and without having removed or created a merge file; and the pairs grouped
\* by a doReduce that ends with status 0 are exactly the records stored in the
\* shards, none skipped and none made up
C18_DecodeFailureAborts ==
    Done("doReduce") =>
        /\ (\E m \in 0..(nMap - 1) :
                /\ Exists(reduceName(m, reduceTaskNumber))
                /\ ~WellFormed(disk[reduceName(m, reduceTaskNumber)])) =>
               /\ status # 0
               /\ reduceCalls = <<>>
               /\ created = {} /\ replaced = {}
        /\ status = 0 => rKeyValues = StoredRecords(reduceTaskNumber, nMap)

\* the files an invocation with locals c may create, remove or write
FilesOf(c) ==
    IF c.fn = "doMap" THEN {reduceName(c.mapTaskNumber, r) : r \in ReduceTasks}
    ELSE IF c.fn = "doReduce" THEN {mergeName(c.reduceTaskNumber)}
    ELSE {}

\* the pairs of the shards (0..n-1, r) that exist in directory d
RECURSIVE PairsIn(_, _, _)
PairsIn(d, r, n) ==
    IF n = 0 THEN <<>>
    ELSE PairsIn(d, r, n - 1) \o
         (IF reduceName(n - 1, r) \in DOMAIN d
          THEN Decode(d[reduceName(n - 1, r)]).kvs ELSE <<>>)

\* the directory after the invocation with locals c has run alone on
\* directory d and no os call has failed
RunAlone(d, c) ==
    IF c.fn = "doMap"
    THEN LET names == {reduceName(c.mapTaskNumber, r) : r \in 0..(nReduce - 1)}
         IN  [f \in DOMAIN d \cup names |->
                 IF f \in names
                 THEN EncodeAll(SelectSeq(c.keyValues,
                                          LAMBDA kv : Mod32(ihash(kv.Key), nReduce) = f[3]))
                 ELSE d[f]]
    ELSE IF c.fn = "doReduce" /\ c.status = 0
    THEN [f \in DOMAIN d \cup {mergeName(c.reduceTaskNumber)} |->
             IF f = mergeName(c.reduceTaskNumber)
             THEN EncodeAll([k \in DOMAIN c.reduceCalls |->
                                [Key |-> c.reduceCalls[k].Key,
                                 Value |-> c.reduceCalls[k].Result]])
             ELSE d[f]]
    ELSE d

\* what the doReduce with locals c has read and grouped is what it reads
\* when it runs alone on directory d
ReadsAlone(d, c) ==
    c.fn = "doReduce" =>
        /\ c.rKeyValues = PairsIn(d, c.reduceTaskNumber, c.nMap)
        /\ \A k \in DOMAIN c.reduceCalls :
               c.reduceCalls[k].Values =
                   ValueList(PairsIn(d, c.reduceTaskNumber, c.nMap), c.reduceCalls[k].Key)
        /\ c.status = 0 =>
               {c.reduceCalls[k].Key : k \in DOMAIN c.reduceCalls} =
                   KeysIn(PairsIn(d, c.reduceTaskNumber, c.nMap))

\* two invocations of the same function with different task numbers
SameKind ==
    \/ fn = "doMap" /\ other.fn = "doMap" /\ mapTaskNumber # other.mapTaskNumber
    \/ fn = "doReduce" /\ other.fn = "doReduce"
           /\ reduceTaskNumber # other.reduceTaskNumber

\* C16: two doMap invocations with different map task numbers, or two
\* doReduce invocations with different reduce task numbers, create, remove and
\* write disjoint sets of files, and however their steps interleave the
\* directory at the end is the one left by running them one after the other,
\* in either order
C16_DistinctTasksIndependent ==
    SameKind =>
        /\ created \cup replaced \subseteq FilesOf(Ctx)
        /\ other.created \cup other.replaced \subseteq FilesOf(other)
        /\ (created \cup replaced) \cap (other.created \cup other.replaced) = {}
        /\ FilesOf(Ctx) \cap FilesOf(other) = {}
        /\ (pc = "done" /\ other.pc = "done") =>
               /\ disk = RunAlone(RunAlone(disk0, other), Ctx)
               /\ disk = RunAlone(RunAlone(disk0, Ctx), other)
               /\ ReadsAlone(disk0, Ctx) /\ ReadsAlone(disk0, other)
               /\ status = 0 /\ other.status = 0 => DOMAIN disk \subseteq valid

\* two doMap invocations are both between the creation of their first shard
\* and the write of their second, having replaced the shards of earlier runs
C16_Witness ==
    /\ fn = "doMap" /\ other.fn = "doMap" /\ mapTaskNumber # other.mapTaskNumber
    /\ nReduce = 2
    /\ pc = "write" /\ i = 1 /\ other.pc = "create" /\ other.i = 1
    /\ replaced # {} /\ other.replaced # {}
    /\ keyValues # <<>> /\ other.keyValues # <<>>

\* the locals of the doReduce and of the doMap when one of each is under way
TheReduce == IF fn = "doReduce" THEN Ctx ELSE other
TheMap == IF fn = "doMap" THEN Ctx ELSE other

\* C19: when a doReduce runs while a doMap rewrites a shard it reads, and the
\* shard held pairs before and holds pairs afterwards, the pairs doReduce took
\* from it are all the old pairs or all the new pairs; it is never taken for
\* absent or empty
C19_ReaderSeesOldOrNew ==
    LET shard == reduceName(0, TheReduce.reduceTaskNumber)
    IN  (/\ {fn, other.fn} = {"doMap", "doReduce"}
         /\ pc = "done" /\ other.pc = "done"
         /\ TheReduce.nMap = 1 /\ TheMap.mapTaskNumber = 0
         /\ TheMap.status = 0 /\ ~TheReduce.stepFailed
         /\ shard \in DOMAIN disk0 /\ Decode(disk0[shard]).kvs # <<>>
         /\ shard \in DOMAIN disk /\ Decode(disk[shard]).kvs # <<>>) =>
            TheReduce.rKeyValues \in {Decode(disk0[shard]).kvs, Decode(disk[shard]).kvs}

====
